---- MODULE Spec2Model ----
(***************************************************************************)
(* A model of the Movies Buddy agent: the TVDB API client and search tool  *)
(* (tools/mcp_servers/tvdb/helper.py, server.py), the result formatter,    *)
(* the credential resolver and the conversation runner                     *)
(* (agents/movies_buddy_agent.py).                                         *)
(*                                                                         *)
(* Python values are modelled as follows.  None is the string "<None>".    *)
(* An exception is the name of its class; "none" means that the call       *)
(* returned.  A JSON mapping is a TLA+ function whose DOMAIN is the set of *)
(* keys that are present; a JSON scalar is a record [t, s, i] with its     *)
(* type t ("str", "int", "null"), its text s and its number i.             *)
(***************************************************************************)
EXTENDS Integers, Sequences, FiniteSets, TLC

VARIABLES
    client,     \* SpecClient: the one TVDBClient object, [token, session]
    wire,       \* SpecClient: the requests the client has sent, in order
    last,       \* SpecClient: what the last call on the client did
    authed,     \* SpecClient: a successful authenticate() has completed
    nops,       \* SpecClient: the number of calls made so far
    tvdb_env,   \* SpecTool: the process environment's TVDB_API_KEY, TVDB_PIN
    tcall,      \* SpecTool: each search_tv_series_tvdb call's frame
    tclients,   \* SpecTool: the TVDBClient objects, id -> [token, session]
    key_env,    \* SpecResolve: the explicit mapping given to _resolve_api_key
    os_env,     \* SpecResolve: the process environment (os.environ)
    key_out,    \* SpecResolve: the outcome of _resolve_api_key
    fmt_in,     \* SpecFormat: the response given to format_search_results
    fmt_out,    \* SpecFormat: the outcome of format_search_results
    ext_in,     \* SpecExtract: the result Runner.run returned
    ext_out,    \* SpecExtract: the final answer extracted from it
    heap,       \* SpecRunner: the list objects, id -> sequence of messages
    run         \* SpecRunner: each run_movies_buddy_agent call's frame

vars == <<client, wire, last, authed, nops, tvdb_env, tcall, tclients,
          key_env, os_env, key_out, fmt_in, fmt_out, ext_in, ext_out, heap, run>>

clientVars  == <<client, wire, last, authed, nops>>
toolVars    == <<tvdb_env, tcall, tclients>>
resolveVars == <<key_env, os_env, key_out>>
formatVars  == <<fmt_in, fmt_out>>
extractVars == <<ext_in, ext_out>>
runnerVars  == <<heap, run>>

None == "<None>"

(***************************************************************************)
(* Bounds of the model.                                                    *)
(***************************************************************************)
MaxOps == 4          \* calls made on the one client of SpecClient
MaxRecords == 2      \* records in the "data" list of a search response
MaxExtra == 2        \* characters by which an overview may exceed the limit
MaxTime == 2         \* the longest agent run and the longest timeout_s, in seconds
MaxParts == 3        \* parts in the content list of a conversation's last message

(***************************************************************************)
(* Constants of the program.                                               *)
(***************************************************************************)
OverviewLimit == 200   \* _format_item: overview[:200]
CompaniesLimit == 3    \* _format_item: companies[:3]
GenresLimit == 5       \* _format_item: genres[:5]

\* The record of a call on the client: the operation, the exception it raised,
\* the number of requests it sent, the server's answer, the token stored before
\* the call and whether a successful authenticate() had completed before it.
CallRecord(op, raised, sent, resp, before, authed_before) ==
    [op |-> op, raised |-> raised, sent |-> sent, resp |-> resp,
     before |-> before, authed_before |-> authed_before]

NoResponse == [status |-> "none", json |-> FALSE, data |-> "absent", token |-> None]
NoCall == CallRecord("none", "none", 0, NoResponse, None, FALSE)

(***************************************************************************)
(* Variables a specification does not use stay at these values.            *)
(***************************************************************************)
IdleClient  == /\ client = [token |-> None, session |-> "none"]
               /\ wire = <<>>
               /\ last = NoCall
               /\ authed = FALSE
               /\ nops = 0
IdleTool    == tvdb_env = <<>> /\ tcall = <<>> /\ tclients = <<>>
IdleResolve == key_env = <<>> /\ os_env = <<>> /\ key_out = <<>>
IdleFormat  == fmt_in = <<>> /\ fmt_out = <<>>
IdleRunner  == heap = <<>> /\ run = <<>>
IdleExtract == ext_in = <<>> /\ ext_out = <<>>

(***************************************************************************)
(* JSON scalars and mappings.                                              *)
(***************************************************************************)
StrV(s) == [t |-> "str", s |-> s, i |-> 0]
IntV(i) == [t |-> "int", s |-> "", i |-> i]
NullV   == [t |-> "null", s |-> "", i |-> 0]

\* Python truthiness of a JSON scalar.
Truthy(v) ==
    CASE v.t = "str" -> v.s # ""
      [] v.t = "int" -> v.i # 0
      [] OTHER       -> FALSE

\* str(v), as an f-string renders a scalar.
Render(v) ==
    CASE v.t = "str" -> v.s
      [] v.t = "int" -> ToString(v.i)
      [] OTHER       -> "None"

\* dict.get(key, default)
Get(d, key, default) == IF key \in DOMAIN d THEN d[key] ELSE default

(***************************************************************************)
(* helper.py: the TVDB API client.                                         *)
(***************************************************************************)

\* Python truthiness of a token: None and "" are falsy.
TruthyStr(s) == s # None /\ s # ""

\* The bearer tokens the login endpoint may hand out.
Tokens == {"tok1", "tok2"}

\* What the server may answer to a request.  status: "transport_error" (the
\* request raised a requests.RequestException), "http_error" (a non-2xx
\* status: raise_for_status raises HTTPError) or "ok".  json: the body
\* decodes as JSON.  data: the body's "data" member is "absent", "null" or an
\* "object".  token: the "token" member of that object (None: absent or null).
HttpResponse(status, json, data, token) ==
    [status |-> status, json |-> json, data |-> data, token |-> token]

LoginResponses ==
    {HttpResponse(s, FALSE, "absent", None) : s \in {"transport_error", "http_error"}}
    \cup {HttpResponse("ok", FALSE, "absent", None)}
    \cup {HttpResponse("ok", TRUE, d, None) : d \in {"absent", "null"}}
    \cup {HttpResponse("ok", TRUE, "object", t) : t \in {None, ""} \cup Tokens}

\* requests.RequestException and its subclasses.
RequestExceptions == {"ConnectionError", "HTTPError", "JSONDecodeError"}

\* TVDBClient.__post_init__: a client built without a session opens one.
NewClient == [token |-> None, session |-> "open"]

\* session.post(...); response.raise_for_status(): the exception it raises.
RaiseForStatus(resp) ==
    CASE resp.status = "transport_error" -> "ConnectionError"
      [] resp.status = "http_error"      -> "HTTPError"
      [] OTHER                           -> "none"

\* The login request authenticate() posts.
LoginRequest == [method |-> "POST", url |-> "/login", auth |-> None, params |-> <<>>]

\* A variant of authenticate that resets the stored token when the login fails.
AuthenticateClearsToken(c, resp) ==
    LET exc == RaiseForStatus(resp) IN
    IF exc \in RequestExceptions
    THEN [client |-> [c EXCEPT !.token = None], raised |-> "TVDBAuthenticationError"]
    ELSE IF ~resp.json
    THEN [client |-> c, raised |-> "JSONDecodeError"]
    ELSE IF resp.data = "null"
    THEN [client |-> c, raised |-> "AttributeError"]
    ELSE LET token == IF resp.data = "absent" THEN None ELSE resp.token IN
         IF ~TruthyStr(token)
         THEN [client |-> [c EXCEPT !.token = None], raised |-> "TVDBAuthenticationError"]
         ELSE [client |-> [c EXCEPT !.token = token], raised |-> "none"]

\* TVDBClient.authenticate, from the response on: [client, raised].
authenticate(c, resp) ==
    LET exc == RaiseForStatus(resp) IN
    IF exc \in RequestExceptions
    THEN [client |-> c, raised |-> "TVDBAuthenticationError"]
    ELSE IF ~resp.json
    THEN [client |-> c, raised |-> "JSONDecodeError"]      \* response.json()
    ELSE IF resp.data = "null"
    THEN [client |-> c, raised |-> "AttributeError"]       \* None.get("token")
    ELSE LET token == IF resp.data = "absent" THEN None ELSE resp.token IN
         IF ~TruthyStr(token)
         THEN [client |-> c, raised |-> "TVDBAuthenticationError"]
         ELSE [client |-> [c EXCEPT !.token = token], raised |-> "none"]

\* A variant of _headers without the check of the token.
HeadersUnchecked(c) == [raised |-> "none", auth |-> c.token]

\* TVDBClient._headers: [raised, auth].
_headers(c) ==
    IF ~TruthyStr(c.token)
    THEN [raised |-> "TVDBAuthenticationError", auth |-> None]
    ELSE [raised |-> "none", auth |-> c.token]

\* TVDBClient.search's handler, except requests.RequestException: the exception
\* that leaves the try block when exc is raised inside it.
SearchExcept(exc) ==
    IF exc \in RequestExceptions THEN "TVDBRequestError" ELSE exc

\* {key: value for key, value in params.items() if value is not None}
CleanParams(params) ==
    [k \in {j \in DOMAIN params : params[j].t # "null"} |-> params[k]]

\* TVDBClient.search up to session.get: [raised, sent], sent the requests issued.
SearchSend(c, params) ==
    LET h == _headers(c) IN
    IF h.raised # "none"
    THEN [raised |-> SearchExcept(h.raised), sent |-> <<>>]
    ELSE [raised |-> "none",
          sent |-> <<[method |-> "GET", url |-> "/search", auth |-> h.auth,
                      params |-> CleanParams(params)]>>]

\* TVDBClient.search from the response on: the exception it raises.
SearchReceive(resp) ==
    LET exc == SearchExcept(RaiseForStatus(resp)) IN
    IF exc # "none" THEN exc
    ELSE IF ~resp.json THEN "JSONDecodeError"             \* response.json()
    ELSE "none"

\* The answers to a search request that SpecClient draws from.
SearchStatuses ==
    {HttpResponse(s, FALSE, "absent", None) : s \in {"transport_error", "http_error"}}
    \cup {HttpResponse("ok", j, "object", None) : j \in BOOLEAN}

\* The keyword arguments SpecClient gives to search().
ClientParams ==
    {[query |-> StrV("dune")],
     [query |-> StrV("dune"), year |-> NullV],
     [query |-> StrV("dune"), year |-> IntV(2021)]}

(***************************************************************************)
(* SpecClient: one TVDBClient and any sequence of authenticate() and       *)
(* search() calls on it, the server answering each request in any way.     *)
(***************************************************************************)
InitClient ==
    /\ client = NewClient
    /\ wire = <<>>
    /\ last = NoCall
    /\ authed = FALSE
    /\ nops = 0
    /\ IdleTool /\ IdleResolve /\ IdleFormat /\ IdleRunner /\ IdleExtract

Authenticate ==
    /\ nops < MaxOps
    /\ \E resp \in LoginResponses :
         LET r == authenticate(client, resp) IN
         /\ client' = r.client
         /\ wire' = Append(wire, LoginRequest)
         /\ last' = CallRecord("authenticate", r.raised, 1, resp, client.token, authed)
         /\ authed' = (authed \/ r.raised = "none")
    /\ nops' = nops + 1
    /\ UNCHANGED <<toolVars, resolveVars, formatVars, runnerVars, extractVars>>

Search ==
    /\ nops < MaxOps
    /\ \E resp \in SearchStatuses, params \in ClientParams :
         LET s == SearchSend(client, params)
             raised == IF s.raised # "none" THEN s.raised ELSE SearchReceive(resp) IN
         /\ wire' = wire \o s.sent
         /\ last' = CallRecord("search", raised, Len(s.sent),
                                IF s.sent = <<>> THEN NoResponse ELSE resp,
                                client.token, authed)
    /\ nops' = nops + 1
    /\ UNCHANGED <<client, authed, toolVars, resolveVars, formatVars, runnerVars, extractVars>>

NextClient == Authenticate \/ Search

SpecClient == InitClient /\ [][NextClient]_vars

\* C2: search() on a client that has never completed a successful
\* authenticate() raises TVDBAuthenticationError and sends no request, and
\* every search request that is sent carries the token the client holds.
C2_SearchNeedsToken ==
    /\ (last.op = "search" /\ ~last.authed_before) =>
          (last.raised = "TVDBAuthenticationError" /\ last.sent = 0)
    /\ (last.op = "search" /\ last.sent > 0) => TruthyStr(last.before)
    /\ \A i \in 1..Len(wire) :
          wire[i].url = "/search" => (TruthyStr(wire[i].auth) /\ authed)

\* C2 witness: a search on a client whose only authenticate() so far failed.
C2_Witness ==
    /\ last.op = "search" /\ ~last.authed_before /\ nops >= 2
    /\ last.raised = "TVDBAuthenticationError"

\* The failures of authenticate() that C3 names: a transport error, a non-2xx
\* status, and a JSON body in which the token field is missing (no "data"
\* member, or a "data" mapping without a "token").
C3_NamedFailure(resp) ==
    \/ resp.status \in {"transport_error", "http_error"}
    \/ /\ resp.status = "ok" /\ resp.json
       /\ (resp.data = "absent" \/ (resp.data = "object" /\ resp.token = None))

Title(s) ==
    CASE s = "series"  -> "Series"
      [] s = "movie"   -> "Movie"
      [] s = "person"  -> "Person"
      [] s = "company" -> "Company"
      [] OTHER         -> s            \* "N/A".title() = "N/A"

\* An overview: null or a string of characters.
TextV(chars) == [t |-> "str", chars |-> chars]
NullText     == [t |-> "null", chars |-> <<>>]
Chars(n)     == [i \in 1..n |-> ToString(i % 10)]

\* A companies or genres member: null or a list of entries, each a mapping
\* (with or without a "name") or a plain string.
ListV(items) == [t |-> "list", items |-> items]
NullList     == [t |-> "null", items |-> <<>>]
DictEntry(name) == [dict |-> TRUE, has_name |-> TRUE, s |-> name]
NamelessEntry   == [dict |-> TRUE, has_name |-> FALSE, s |-> ""]
StrEntry(s)     == [dict |-> FALSE, has_name |-> FALSE, s |-> s]

\* entry.get("name", "N/A") if isinstance(entry, dict) else str(entry)
EntryName(e) == IF e.dict THEN (IF e.has_name THEN e.s ELSE "N/A") ELSE e.s

\* seq[:n]
Prefix(seq, n) == SubSeq(seq, 1, IF Len(seq) < n THEN Len(seq) ELSE n)

\* sep.join(parts), parts a sequence of texts.
RECURSIVE Join(_, _)
Join(sep, parts) ==
    IF Len(parts) = 0 THEN <<>>
    ELSE IF Len(parts) = 1 THEN parts[1]
    ELSE parts[1] \o <<sep>> \o Join(sep, Tail(parts))

\* The names of the first n entries, joined by ", ".
JoinNames(entries, n) ==
    LET firsts == Prefix(entries, n) IN
    Join(", ", [k \in 1..Len(firsts) |-> <<EntryName(firsts[k])>>])

\* A variant of IdField that tests whether tvdb_id is present, not its truth.
IdFirstPresent(item) ==
    IF "tvdb_id" \in DOMAIN item THEN item["tvdb_id"] ELSE Get(item, "id", StrV("N/A"))

\* item.get("tvdb_id") or item.get("id", "N/A")
IdField(item) ==
    IF Truthy(Get(item, "tvdb_id", NullV))
    THEN item["tvdb_id"]
    ELSE Get(item, "id", StrV("N/A"))

\* A variant of ItemOverviewLines that already truncates at the limit itself.
OverviewCutAtLimit(item) ==
    LET ov == Get(item, "overview", NullText)
        overview == IF ov.t = "str" THEN ov.chars ELSE <<>>
        truncated == IF Len(overview) >= OverviewLimit
                     THEN SubSeq(overview, 1, OverviewLimit) \o <<"...">>
                     ELSE overview
    IN IF overview # <<>> THEN << <<"   - Overview: ">> \o truncated >> ELSE <<>>

\* _format_item: [raised, lines], the lines it yields.
ItemHeadLine(index, item) ==
    <<ToString(index), ". **", Render(Get(item, "name", StrV("N/A"))), "** (",
      Title(Get(item, "type", StrV("N/A")).s), ", ",
      Render(Get(item, "year", StrV("N/A"))), ")">>

ItemIdLine(item) == <<"   - TVDB ID: ", Render(IdField(item))>>

ItemOverviewLines(item) ==
    LET ov == Get(item, "overview", NullText)
        overview == IF ov.t = "str" THEN ov.chars ELSE <<>>     \* ... or ""
        truncated == IF Len(overview) > OverviewLimit
                     THEN SubSeq(overview, 1, OverviewLimit) \o <<"...">>
                     ELSE overview
    IN IF overview # <<>> THEN << <<"   - Overview: ">> \o truncated >> ELSE <<>>

ItemListLines(item, key, label, limit) ==
    LET l == Get(item, key, NullList) IN
    IF l.t = "list" /\ l.items # <<>>
    THEN << <<label>> \o JoinNames(l.items, limit) >>
    ELSE <<>>

_format_item(index, item) ==
    IF Get(item, "type", StrV("N/A")).t # "str"
    THEN [raised |-> "AttributeError", lines |-> <<>>]      \* None.title()
    ELSE [raised |-> "none",
          lines |-> <<ItemHeadLine(index, item), ItemIdLine(item)>>
                    \o ItemOverviewLines(item)
                    \o ItemListLines(item, "companies", "   - Networks/Companies: ",
                                     CompaniesLimit)
                    \o ItemListLines(item, "genres", "   - Genres: ", GenresLimit)]

\* A response body: None, or a mapping that may hold "data" (null or a list).
NoBody        == [t |-> "null", m |-> <<>>]
Body(m)       == [t |-> "dict", m |-> m]
DataList(seq) == [t |-> "list", items |-> seq]

\* results.get("data") if results else None, and `not data`.
ResponseData(results) ==
    IF results.t = "dict" /\ DOMAIN results.m # {}
    THEN Get(results.m, "data", NullList)
    ELSE NullList

NoResultsText == <<"No results found for the search query.">>

\* The lines of the first n records, in the order the loop extends `lines`.
RECURSIVE FormatItems(_, _)
FormatItems(items, n) ==
    IF n = 0 THEN [raised |-> "none", lines |-> <<>>]
    ELSE LET before == FormatItems(items, n - 1) IN
         IF before.raised # "none" THEN before
         ELSE LET it == _format_item(n, items[n]) IN
              IF it.raised # "none" THEN [raised |-> it.raised, lines |-> <<>>]
              ELSE [raised |-> "none", lines |-> before.lines \o it.lines]

\* format_search_results: [raised, text].
format_search_results(results) ==
    LET data == ResponseData(results) IN
    IF ~(data.t = "list" /\ data.items # <<>>)
    THEN [raised |-> "none", text |-> NoResultsText]
    ELSE LET body == FormatItems(data.items, Len(data.items)) IN
         IF body.raised # "none" THEN [raised |-> body.raised, text |-> <<>>]
         ELSE [raised |-> "none",
               text |-> Join("\n", << <<"Found ", ToString(Len(data.items)), " results:", "\n">> >>
                                   \o body.lines)]

(***************************************************************************)
(* SpecFormat: format_search_results applied to one response.              *)
(***************************************************************************)
BaseItem ==
    ("name" :> StrV("Dune")) @@ ("type" :> StrV("movie")) @@ ("year" :> IntV(2021))

WithField(item, key, values) == {item} \cup {(key :> v) @@ item : v \in values}

\* Records that differ in their identifier fields.
IdItems ==
    UNION {WithField(i, "id", {IntV(0), IntV(7)}) :
           i \in WithField(BaseItem, "tvdb_id", {StrV(""), IntV(0), StrV("t1")})}

\* Records that differ in name, type and year.
HeadItems ==
    {("tvdb_id" :> StrV("t1")),
     ("tvdb_id" :> StrV("t1")) @@ ("type" :> StrV("series")),
     ("tvdb_id" :> StrV("t1")) @@ ("name" :> StrV("Dune")) @@ ("year" :> StrV("1984")),
     ("tvdb_id" :> StrV("t1")) @@ ("type" :> NullV)}

\* Records that differ in their overview.
OverviewItems ==
    {("overview" :> v) @@ ("id" :> IntV(7)) @@ BaseItem :
       v \in {NullText} \cup
             {TextV(Chars(n)) : n \in {0, 1, OverviewLimit}
                                      \cup (OverviewLimit + 1)..(OverviewLimit + MaxExtra)}}

Companies4 == <<DictEntry("HBO"), StrEntry("BBC"), NamelessEntry, DictEntry("AMC")>>
Genres6 == <<StrEntry("g1"), DictEntry("g2"), NamelessEntry, StrEntry("g4"),
             DictEntry("g5"), StrEntry("g6")>>

\* Records that differ in their companies and genres.
ListItems ==
    {("companies" :> ListV(SubSeq(Companies4, 1, n))) @@ ("id" :> IntV(7)) @@ BaseItem :
       n \in {0, 1, 4}}
    \cup {("genres" :> ListV(Genres6)) @@ ("companies" :> NullList) @@ BaseItem,
          ("genres" :> ListV(SubSeq(Genres6, 1, 5))) @@ BaseItem}

Items == IdItems \cup HeadItems \cup OverviewItems \cup ListItems

RecordLists == UNION {[1..n -> Items] : n \in 0..MaxRecords}

FormatInputs ==
    {NoBody, Body(<<>>), Body("status" :> "success"),
     Body(("status" :> "success") @@ ("data" :> NullList))}
    \cup {Body(("status" :> "success") @@ ("data" :> DataList(l))) : l \in RecordLists}

NotRun == [raised |-> "not run", text |-> <<>>]

InitFormat ==
    /\ fmt_in \in FormatInputs
    /\ fmt_out = NotRun
    /\ IdleClient /\ IdleTool /\ IdleResolve /\ IdleRunner /\ IdleExtract

FormatSearchResults ==
    /\ fmt_out = NotRun
    /\ fmt_out' = format_search_results(fmt_in)
    /\ UNCHANGED <<fmt_in, clientVars, toolVars, resolveVars, runnerVars, extractVars>>

NextFormat == FormatSearchResults

SpecFormat == InitFormat /\ [][NextFormat]_vars

\* text.split("\n"): the lines of a text.
RECURSIVE SplitLines(_)
SplitLines(text) ==
    LET breaks == {i \in 1..Len(text) : text[i] = "\n"} IN
    IF breaks = {} THEN <<text>>
    ELSE LET i == CHOOSE b \in breaks : \A c \in breaks : b <= c IN
         <<SubSeq(text, 1, i - 1)>> \o SplitLines(SubSeq(text, i + 1, Len(text)))

\* The records of the response given to the formatter.
InputRecords ==
    IF fmt_in.t = "dict" /\ "data" \in DOMAIN fmt_in.m /\ fmt_in.m["data"].t = "list"
    THEN fmt_in.m["data"].items
    ELSE <<>>

\* Every type field that is present is a string.
TypesAreStrings ==
    \A k \in 1..Len(InputRecords) :
        "type" \in DOMAIN InputRecords[k] => InputRecords[k]["type"].t = "str"

IsHeadLine(l) == Len(l) = 8 /\ l[2] = ". **" /\ l[4] = "** (" /\ l[6] = ", " /\ l[8] = ")"
IsIdLine(l)   == Len(l) = 2 /\ l[1] = "   - TVDB ID: "

FieldOrNA(item, key) == IF key \in DOMAIN item THEN Render(item[key]) ELSE "N/A"

\* The identifier C10 states: the first field that is present.
FirstPresentId(item) ==
    IF "tvdb_id" \in DOMAIN item THEN Render(item["tvdb_id"]) ELSE FieldOrNA(item, "id")

\* The identifier the code shows: tvdb_id when it is present and truthy (not
\* null, "" or 0), else id when it is present, else "N/A".
FirstTruthyId(item) ==
    IF "tvdb_id" \in DOMAIN item /\ Truthy(item["tvdb_id"])
    THEN Render(item["tvdb_id"])
    ELSE FieldOrNA(item, "id")

\* The output for N >= 1 records is the count line and then N entries numbered
\* 1..N in input order, each a head line followed by its ID line.
NumberedEntries(Id(_)) ==
    LET items == InputRecords
        N     == Len(items)
        ls    == SplitLines(fmt_out.text)
        heads == {p \in 1..Len(ls) : IsHeadLine(ls[p])}
        ids   == {p \in 1..Len(ls) : IsIdLine(ls[p])}
        at(k) == CHOOSE p \in heads : ls[p][1] = ToString(k)
    IN (fmt_out # NotRun /\ N >= 1 /\ TypesAreStrings) =>
         /\ fmt_out.raised = "none"
         /\ ls[1] = <<"Found ", ToString(N), " results:">>
         /\ ls[2] = <<>>
         /\ Cardinality(heads) = N /\ Cardinality(ids) = N
         /\ \A k \in 1..N :
              /\ \E p \in heads : ls[p][1] = ToString(k)
              /\ ls[at(k)][3] = FieldOrNA(items[k], "name")
              /\ ls[at(k)][5] = Title(FieldOrNA(items[k], "type"))
              /\ ls[at(k)][7] = FieldOrNA(items[k], "year")
              /\ at(k) + 1 \in ids
              /\ ls[at(k) + 1][2] = Id(items[k])
              /\ k < N => at(k) < at(k + 1)

EntryLines(ls, k, N) ==
    LET head(j) == CHOOSE p \in 1..Len(ls) : IsHeadLine(ls[p]) /\ ls[p][1] = ToString(j)
        end     == IF k < N THEN head(k + 1) - 1 ELSE Len(ls)
    IN head(k)..end

IsOverviewLine(l) == Len(l) >= 1 /\ l[1] = "   - Overview: "

\* The characters of a record's overview; none when it is absent or null.
OverviewOf(item) ==
    IF "overview" \in DOMAIN item /\ item["overview"].t = "str"
    THEN item["overview"].chars
    ELSE <<>>

\* C11: an overview of at most OverviewLimit (200) characters is emitted
\* verbatim with no ellipsis, a longer one as its first 200 characters followed
\* by "...", and an absent or empty overview emits no Overview line.
C11_OverviewTruncation ==
    LET items == InputRecords
        N     == Len(items)
        ls    == SplitLines(fmt_out.text)
    IN (fmt_out # NotRun /\ N >= 1 /\ TypesAreStrings) =>
         /\ fmt_out.raised = "none"
         /\ \A k \in 1..N :
              LET ov    == OverviewOf(items[k])
                  lines == {p \in EntryLines(ls, k, N) : IsOverviewLine(ls[p])}
              IN /\ ov = <<>> => lines = {}
                 /\ (ov # <<>> /\ Len(ov) <= OverviewLimit) =>
                       /\ Cardinality(lines) = 1
                       /\ \A p \in lines : ls[p] = <<"   - Overview: ">> \o ov
                 /\ Len(ov) > OverviewLimit =>
                       /\ Cardinality(lines) = 1
                       /\ \A p \in lines :
                            ls[p] = <<"   - Overview: ">>
                                    \o SubSeq(ov, 1, OverviewLimit) \o <<"...">>

\* C11 witness: two records formatted, one with an overview of exactly 200
\* characters and one with an overview of 201 characters.
C11_Witness ==
    /\ fmt_out # NotRun /\ fmt_out.raised = "none" /\ Len(InputRecords) = 2
    /\ Len(OverviewOf(InputRecords[1])) = OverviewLimit
    /\ Len(OverviewOf(InputRecords[2])) = OverviewLimit + 1

(***************************************************************************)
(* movies_buddy_agent.py: the credential resolver.                         *)
(***************************************************************************)
_API_KEY_ENV_VARS == <<"GEMINI_API_KEY", "GOOGLE_API_KEY", "GEMENI_API_KEY">>

\* A variant of Lookup that asks the process environment before the mapping.
LookupProcessFirst(env, environ, key) ==
    IF TruthyStr(Get(environ, key, "")) THEN environ[key] ELSE Get(env, key, "")

\* env.get(key) or os.getenv(key, "")
Lookup(env, environ, key) ==
    IF TruthyStr(Get(env, key, None)) THEN env[key] ELSE Get(environ, key, "")

\* A variant of IsDeprecatedAlias that names the primary variable.
WarnsOnPrimaryName(key) == key = "GEMINI_API_KEY"

\* if key == "GEMENI_API_KEY"
IsDeprecatedAlias(key) == key = "GEMENI_API_KEY"

LogRecord(level, key) == [level |-> level, key |-> key]

\* _resolve_api_key, from the k-th candidate name on: [raised, value, log].
RECURSIVE ResolveFrom(_, _, _)
ResolveFrom(env, environ, k) ==
    IF k > Len(_API_KEY_ENV_VARS)
    THEN [raised |-> "MissingApiKeyError", value |-> None, log |-> <<>>]
    ELSE LET key   == _API_KEY_ENV_VARS[k]
             value == Lookup(env, environ, key)
         IN IF TruthyStr(value)
            THEN [raised |-> "none", value |-> value,
                  log |-> (IF IsDeprecatedAlias(key)
                           THEN <<LogRecord("warning", key)>> ELSE <<>>)
                          \o <<LogRecord("debug", key)>>]
            ELSE ResolveFrom(env, environ, k + 1)

_resolve_api_key(env, environ) == ResolveFrom(env, environ, 1)

(***************************************************************************)
(* SpecResolve: _resolve_api_key applied to one explicit mapping and one   *)
(* process environment.  Each candidate name is absent, empty or set, in   *)
(* each of the two sources independently.                                  *)
(***************************************************************************)
KeyNames == {_API_KEY_ENV_VARS[k] : k \in 1..Len(_API_KEY_ENV_VARS)}

\* The mappings of a source: each name absent, empty, or set to a value that
\* tells the source and the name.
EnvMaps(prefix) ==
    {m \in UNION {[names -> {""} \cup {prefix \o n : n \in names}] :
                    names \in SUBSET KeyNames} :
       \A n \in DOMAIN m : m[n] \in {"", prefix \o n}}

Unresolved == [raised |-> "not run", value |-> None, log |-> <<>>]

InitResolve ==
    /\ key_env \in EnvMaps("map:")
    /\ os_env \in EnvMaps("os:")
    /\ key_out = Unresolved
    /\ IdleClient /\ IdleTool /\ IdleFormat /\ IdleRunner /\ IdleExtract

ResolveApiKey ==
    /\ key_out = Unresolved
    /\ key_out' = _resolve_api_key(key_env, os_env)
    /\ UNCHANGED <<key_env, os_env, clientVars, toolVars, formatVars, runnerVars, extractVars>>

NextResolve == ResolveApiKey

SpecResolve == InitResolve /\ [][NextResolve]_vars

\* A candidate name has a non-empty value in a source.
SetIn(source, n) == n \in DOMAIN source /\ source[n] # ""

\* The positions of the candidate names with a non-empty value in either source.
Resolving == {k \in 1..Len(_API_KEY_ENV_VARS) :
                SetIn(key_env, _API_KEY_ENV_VARS[k]) \/ SetIn(os_env, _API_KEY_ENV_VARS[k])}

\* C8: _resolve_api_key raises MissingApiKeyError exactly when no candidate name
\* has a non-empty value in either source; otherwise it returns the value of the
\* first candidate name, in the order GEMINI_API_KEY, GOOGLE_API_KEY,
\* GEMENI_API_KEY, that has one, taken from the explicit mapping when the
\* mapping has a non-empty value for that name and else from the process
\* environment.
C8_FirstNonEmptyMatch ==
    key_out # Unresolved =>
      /\ (key_out.raised = "MissingApiKeyError") <=> (Resolving = {})
      /\ key_out.raised \in {"none", "MissingApiKeyError"}
      /\ Resolving # {} =>
           LET k == CHOOSE j \in Resolving : \A i \in Resolving : j <= i
               n == _API_KEY_ENV_VARS[k]
           IN key_out.value = IF SetIn(key_env, n) THEN key_env[n] ELSE os_env[n]

\* C8 witness: the mapping sets only a later name and the process environment
\* an earlier one, and the earlier name's value is returned.
C8_Witness ==
    /\ key_out.raised = "none"
    /\ SetIn(key_env, "GEMENI_API_KEY") /\ ~SetIn(key_env, "GOOGLE_API_KEY")
    /\ ~SetIn(key_env, "GEMINI_API_KEY") /\ ~SetIn(os_env, "GEMINI_API_KEY")
    /\ SetIn(os_env, "GOOGLE_API_KEY")
    /\ key_out.value = os_env["GOOGLE_API_KEY"]

Warned == \E i \in 1..Len(key_out.log) : key_out.log[i].level = "warning"

\* The mapping holds the deprecated alias, with a non-empty value, and nothing else.
OnlyAliasMapped == DOMAIN key_env = {"GEMENI_API_KEY"} /\ SetIn(key_env, "GEMENI_API_KEY")

\* A warning is logged only when the value returned was matched under the alias.
WarnedOnlyForAlias ==
    Warned => /\ key_out.raised = "none"
              /\ Resolving = {3}
              /\ key_out.value \in {Get(key_env, "GEMENI_API_KEY", ""),
                                    Get(os_env, "GEMENI_API_KEY", "")}

\* C9 as stated: a mapping holding only the deprecated alias resolves to the
\* alias's value with a migration warning, whatever the process environment
\* holds; and a warning is logged only for a value matched under the alias.
C9_AliasAlwaysWins ==
    key_out # Unresolved =>
      /\ OnlyAliasMapped =>
           (key_out.raised = "none" /\ key_out.value = key_env["GEMENI_API_KEY"] /\ Warned)
      /\ WarnedOnlyForAlias

\* C9 amended: the same, provided the process environment has no non-empty
\* GEMINI_API_KEY or GOOGLE_API_KEY (either would be returned instead, with no
\* warning).
C9_AliasWinsWhenAlone ==
    key_out # Unresolved =>
      /\ (OnlyAliasMapped /\ ~SetIn(os_env, "GEMINI_API_KEY")
                          /\ ~SetIn(os_env, "GOOGLE_API_KEY")) =>
           (key_out.raised = "none" /\ key_out.value = key_env["GEMENI_API_KEY"] /\ Warned)
      /\ (OnlyAliasMapped /\ (SetIn(os_env, "GEMINI_API_KEY")
                               \/ SetIn(os_env, "GOOGLE_API_KEY"))) =>
           (key_out.raised = "none" /\ ~Warned
            /\ key_out.value \in {os_env[n] : n \in DOMAIN os_env})
      /\ WarnedOnlyForAlias

\* C9 witness: only the alias is mapped, the process environment also sets the
\* alias and no other name, and the mapping's value is returned with a warning.
C9_Witness ==
    /\ OnlyAliasMapped /\ SetIn(os_env, "GEMENI_API_KEY")
    /\ ~SetIn(os_env, "GEMINI_API_KEY") /\ ~SetIn(os_env, "GOOGLE_API_KEY")
    /\ key_out.raised = "none" /\ key_out.value = key_env["GEMENI_API_KEY"] /\ Warned

(***************************************************************************)
(* helper.py, server.py: the search tool.                                  *)
(***************************************************************************)
\* str.strip() and str.lower() on the strings the model uses.
Strip(s) ==
    CASE s = "   "    -> ""
      [] s = " dune " -> "dune"
      [] s = " HBO "  -> "HBO"
      [] s = " key "  -> "key"
      [] OTHER        -> s

Lower(s) ==
    CASE s = "Series" -> "series"
      [] s = "Bogus"  -> "bogus"
      [] OTHER        -> s

\* load_tvdb_credentials: [raised, api_key, pin].
load_tvdb_credentials(env) ==
    LET api_key == Strip(Get(env, "TVDB_API_KEY", ""))
        pin     == Strip(Get(env, "TVDB_PIN", ""))
    IN IF api_key = "" \/ pin = ""
       THEN [raised |-> "ValueError", api_key |-> "", pin |-> ""]
       ELSE [raised |-> "none", api_key |-> api_key, pin |-> pin]

\* The arguments of a search_tv_series_tvdb call.
ToolArgs(query, content_type, year, company, limit) ==
    [query |-> query, content_type |-> content_type, year |-> year,
     company |-> company, limit |-> limit]

\* TVDBSearchTool.search up to the call of the client: [raised, params].
Validate(args) ==
    LET query == Strip(args.query) IN
    IF query = "" THEN [raised |-> "ValueError", params |-> <<>>]
    ELSE IF args.limit < 1 \/ args.limit > 20
    THEN [raised |-> "ValueError", params |-> <<>>]
    ELSE [raised |-> "none",
          params |->
            [query |-> StrV(query), limit |-> IntV(args.limit)]
            @@ (IF TruthyStr(args.content_type)
                THEN [type |-> StrV(Lower(args.content_type))] ELSE <<>>)
            @@ (IF args.year.t # "null" THEN [year |-> args.year] ELSE <<>>)
            @@ (IF TruthyStr(args.company)
                THEN [company |-> StrV(Strip(args.company))] ELSE <<>>)]

(***************************************************************************)
(* SpecTool: concurrent calls of search_tv_series_tvdb.  A call's frame    *)
(* holds its position pc, its arguments, the client it built (an index of  *)
(* tclients, 0 before it has one), the answer its login received, the      *)
(* requests it sent, and the exception it raised or the text it returned.  *)
(***************************************************************************)
Calls == {"call1", "call2"}

TvdbEnvs ==
    {[TVDB_API_KEY |-> " key ", TVDB_PIN |-> "1234"],
     [TVDB_API_KEY |-> " key ", TVDB_PIN |-> "   "],
     [TVDB_PIN |-> "1234"]}

ArgSets ==
    {ToolArgs(" dune ", None, NullV, None, 10),
     ToolArgs("dune", "Series", IntV(2021), " HBO ", 1),
     ToolArgs("dune", "Bogus", NullV, "", 20),
     ToolArgs("", None, NullV, None, 10),
     ToolArgs("   ", None, NullV, None, 10),
     ToolArgs("dune", None, NullV, None, 0),
     ToolArgs("dune", None, NullV, None, 21),
     ToolArgs("   ", None, NullV, None, 21)}

NoArgs   == ToolArgs("", None, NullV, None, 0)
NoClient == 0

\* The login answer of a call that has received none.
NoLogin == HttpResponse("none", FALSE, "absent", None)

Frame(pc, args, c, sent, raised, text) ==
    [pc |-> pc, args |-> args, client |-> c, login |-> NoLogin, sent |-> sent,
     raised |-> raised, text |-> text]

\* A variant of Construct that hands every call the first client ever built.
ConstructOnce(objects) ==
    IF objects = <<>>
    THEN [objects |-> <<NewClient>>, ref |-> 1]
    ELSE [objects |-> objects, ref |-> 1]

\* client = TVDBClient(api_key=api_key, pin=pin): a new object, [objects, ref].
Construct(objects) ==
    [objects |-> Append(objects, NewClient), ref |-> Len(objects) + 1]

\* The answers to a search request: [status, json, body].
SearchResponse(status, json, body) == [status |-> status, json |-> json, body |-> body]

SearchResponses ==
    {SearchResponse(s, FALSE, NoBody) : s \in {"transport_error", "http_error"}}
    \cup {SearchResponse("ok", FALSE, NoBody)}
    \cup {SearchResponse("ok", TRUE, Body("data" :> DataList(l))) :
            l \in {<<>>, <<("tvdb_id" :> IntV(12345)) @@ BaseItem>>}}

InitTool ==
    /\ tvdb_env \in TvdbEnvs
    /\ tcall = [c \in Calls |-> Frame("idle", NoArgs, NoClient, <<>>, "none", <<>>)]
    /\ tclients = <<>>
    /\ IdleClient /\ IdleResolve /\ IdleFormat /\ IdleRunner /\ IdleExtract

\* The agent runtime calls the tool.
Invoke(c) ==
    /\ tcall[c].pc = "idle"
    /\ \E args \in ArgSets :
         tcall' = [tcall EXCEPT ![c] = Frame("build", args, NoClient, <<>>, "none", <<>>)]
    /\ UNCHANGED <<tvdb_env, tclients, clientVars, resolveVars, formatVars, runnerVars, extractVars>>

\* _build_search_tool up to the login request that client.authenticate() posts.
BuildSearchTool(c) ==
    /\ tcall[c].pc = "build"
    /\ LET creds == load_tvdb_credentials(tvdb_env)
           new   == Construct(tclients)
       IN IF creds.raised # "none"
          THEN /\ tcall' = [tcall EXCEPT ![c] =
                              [@ EXCEPT !.pc = "done", !.raised = creds.raised]]
               /\ UNCHANGED tclients
          ELSE /\ tcall' = [tcall EXCEPT ![c] =
                              [@ EXCEPT !.pc = "login", !.client = new.ref,
                                        !.sent = Append(@, LoginRequest)]]
               /\ tclients' = new.objects
    /\ UNCHANGED <<tvdb_env, clientVars, resolveVars, formatVars, runnerVars, extractVars>>

\* The login answer arrives: the rest of client.authenticate(), then
\* TVDBSearchTool.search up to the search request that client.search() sends.
LoginAnswered(c) ==
    /\ tcall[c].pc = "login"
    /\ \E resp \in LoginResponses :
         LET ref == tcall[c].client
             a == authenticate(tclients[ref], resp)
             v == Validate(tcall[c].args)
             s == SearchSend(a.client, v.params)
         IN /\ tclients' = [tclients EXCEPT ![ref] = a.client]
            /\ tcall' = [tcall EXCEPT ![c] =
                 IF a.raised # "none"
                 THEN [@ EXCEPT !.pc = "done", !.login = resp, !.raised = a.raised]
                 ELSE IF v.raised # "none"
                 THEN [@ EXCEPT !.pc = "done", !.login = resp, !.raised = v.raised]
                 ELSE IF s.raised # "none"
                 THEN [@ EXCEPT !.pc = "done", !.login = resp, !.raised = s.raised]
                 ELSE [@ EXCEPT !.pc = "search", !.login = resp,
                                !.sent = @ \o s.sent]]
    /\ UNCHANGED <<tvdb_env, clientVars, resolveVars, formatVars, runnerVars, extractVars>>

\* The search answer arrives: the rest of client.search(), then
\* format_search_results; the call returns the text.
SearchAnswered(c) ==
    /\ tcall[c].pc = "search"
    /\ \E resp \in SearchResponses :
         LET exc == SearchReceive(resp)
             f   == format_search_results(resp.body)
         IN tcall' = [tcall EXCEPT ![c] =
              IF exc # "none" THEN [@ EXCEPT !.pc = "done", !.raised = exc]
              ELSE [@ EXCEPT !.pc = "done", !.raised = f.raised, !.text = f.text]]
    /\ UNCHANGED <<tvdb_env, tclients, clientVars, resolveVars, formatVars, runnerVars, extractVars>>

NextTool ==
    \E c \in Calls :
        Invoke(c) \/ BuildSearchTool(c) \/ LoginAnswered(c) \/ SearchAnswered(c)

SpecTool == InitTool /\ [][NextTool]_vars

\* The arguments that TVDBSearchTool.search rejects.
InvalidArgs(args) == Strip(args.query) = "" \/ args.limit < 1 \/ args.limit > 20

\* C1: a call whose limit is outside [1,20] or whose query is empty or
\* whitespace-only sends no request at all (no login, no search), and ends with
\* the caller error ValueError.
C1_RejectedBeforeNetwork ==
    \A c \in Calls :
        (tcall[c].pc # "idle" /\ InvalidArgs(tcall[c].args)) =>
            /\ tcall[c].sent = <<>>
            /\ tcall[c].pc = "done" => tcall[c].raised = "ValueError"

\* C6: when a call has ended, by returning or by raising, the HTTP session its
\* client opened has been closed.
C6_SessionReleased ==
    \A c \in Calls :
        (tcall[c].pc = "done" /\ tcall[c].client # NoClient) =>
            tclients[tcall[c].client].session # "open"

\* A login answer with which authenticate() succeeds.
LoginSucceeded(resp) ==
    resp.status = "ok" /\ resp.json /\ resp.data = "object" /\ resp.token \in Tokens

IsSearchRequest(req) == req.method = "GET" /\ req.url = "/search"

SearchesSent(c) == {i \in 1..Len(tcall[c].sent) : IsSearchRequest(tcall[c].sent[i])}

\* C12: under any interleaving of concurrent search tool calls, each call
\* constructs its own client and token: no client object is shared between two
\* calls, a search request is sent only after the login of the same call has
\* succeeded, it comes after that login's request and carries the token that
\* login returned (which is the token the call's client holds), and a call
\* whose login fails sends no search request.
C12_CallsShareNothing ==
    /\ \A c, d \in Calls :
         (c # d /\ tcall[c].client # NoClient) => tcall[c].client # tcall[d].client
    /\ \A c \in Calls :
         /\ \A i \in SearchesSent(c) :
              /\ LoginSucceeded(tcall[c].login)
              /\ i = 2 /\ tcall[c].sent[1] = LoginRequest
              /\ tcall[c].sent[i].auth = tcall[c].login.token
              /\ tclients[tcall[c].client].token = tcall[c].login.token
         /\ (tcall[c].login # NoLogin /\ ~LoginSucceeded(tcall[c].login)) =>
              /\ SearchesSent(c) = {}
              /\ tcall[c].pc = "done" /\ tcall[c].raised # "none"
              /\ tclients[tcall[c].client].token = None

\* C12 witness: two calls are in flight at once, each has sent its search
\* request, and their logins returned different tokens.
C12_Witness ==
    \E c, d \in Calls :
        /\ tcall[c].pc = "search" /\ tcall[d].pc = "search"
        /\ tcall[c].login.token = "tok1" /\ tcall[d].login.token = "tok2"
        /\ SearchesSent(c) # {} /\ SearchesSent(d) # {}

(***************************************************************************)
(* movies_buddy_agent.py: the conversation runner.  A list object is an    *)
(* index of heap, 0 is None.  A message is [role, content]; a content is   *)
(* [t, s, parts]: a string s (t = "str"), a list of parts (t = "list") or  *)
(* something else (t = "other"); a part is [dict, type, text].             *)
(***************************************************************************)
StrContent(s)      == [t |-> "str", s |-> s, parts |-> <<>>]
ListContent(parts) == [t |-> "list", s |-> "", parts |-> parts]
OtherContent       == [t |-> "other", s |-> "", parts |-> <<>>]
Part(type, text)   == [dict |-> TRUE, type |-> type, text |-> text]
NonDictPart        == [dict |-> FALSE, type |-> "", text |-> ""]
Msg(role, content) == [role |-> role, content |-> content]

\* "\n".join(texts), texts a sequence of strings.
RECURSIVE JoinStr(_)
JoinStr(texts) ==
    IF Len(texts) = 0 THEN ""
    ELSE IF Len(texts) = 1 THEN texts[1]
    ELSE texts[1] \o "\n" \o JoinStr(Tail(texts))

\* A variant of _extract_final_output that joins the empty texts as well.
ExtractKeepsEmptyTexts(conversation, fallback) ==
    IF fallback # "" THEN fallback
    ELSE IF conversation = <<>> THEN ""
    ELSE LET content == conversation[Len(conversation)].content IN
         IF content.t = "str" THEN content.s
         ELSE IF content.t = "list"
         THEN LET IsText(p) == p.dict /\ p.type = "text"
                  texts == SelectSeq(content.parts, IsText)
              IN JoinStr([k \in 1..Len(texts) |-> texts[k].text])
         ELSE ""

\* _extract_final_output
_extract_final_output(conversation, fallback) ==
    IF fallback # "" THEN fallback
    ELSE IF conversation = <<>> THEN ""
    ELSE LET content == conversation[Len(conversation)].content IN
         IF content.t = "str" THEN content.s
         ELSE IF content.t = "list"
         THEN LET IsText(p) == p.dict /\ p.type = "text"
                  NonEmpty(p) == p.text # ""
                  texts == SelectSeq(SelectSeq(content.parts, IsText), NonEmpty)
              IN JoinStr([k \in 1..Len(texts) |-> texts[k].text])
         ELSE ""

\* run_movies_buddy_agent after Runner.run returned: the final answer from the
\* result's final_output and the conversation of to_input_list().
FinalOutput(final_output, conversation) ==
    _extract_final_output(conversation,
                          IF TruthyStr(final_output) THEN final_output ELSE "")

\* A variant of HistoryOrEmpty that always returns a new empty list.
HistoryDropped(h, ref) == [heap |-> Append(h, <<>>), ref |-> Len(h) + 1]

\* `conversation_history or []`: the list itself when it is given and not
\* empty, else a new empty list.  [heap, ref].
HistoryOrEmpty(h, ref) ==
    IF ref # 0 /\ h[ref] # <<>>
    THEN [heap |-> h, ref |-> ref]
    ELSE [heap |-> Append(h, <<>>), ref |-> Len(h) + 1]

\* A variant of WorkingList without list(): the append goes to the caller's list.
WorkingListAliased(h, ref, msg) ==
    IF ref # 0 /\ h[ref] # <<>>
    THEN [heap |-> [h EXCEPT ![ref] = Append(@, msg)], ref |-> ref]
    ELSE [heap |-> Append(h, <<msg>>), ref |-> Len(h) + 1]

\* messages = list(conversation_history or []); messages.append(...): [heap, ref].
WorkingList(h, ref, msg) ==
    LET prior == IF ref # 0 /\ h[ref] # <<>> THEN h[ref] ELSE <<>> IN
    [heap |-> Append(h, prior \o <<msg>>), ref |-> Len(h) + 1]

\* create_movies_buddy_agent: the exception it raises.  The environment is
\* dict(os.environ), so the mapping and the process environment are one.
create_movies_buddy_agent(env, script_is_file) ==
    LET key == _resolve_api_key(env, env) IN
    IF key.raised # "none" THEN key.raised
    ELSE IF ~script_is_file THEN "FileNotFoundError"   \* _create_tvdb_mcp_server
    ELSE "none"

\* asyncio.wait_for(coro, timeout_s) if timeout_s else coro: the wait can
\* elapse when a timeout is set (truthy: not None, not 0) and is no longer than
\* the time the agent takes; the agent can finish when no timeout is set or
\* it is no shorter than that time.
WaitCanElapse(timeout_s, at) == Truthy(timeout_s) /\ timeout_s.i <= at

AgentCanFinish(timeout_s, at) == ~Truthy(timeout_s) \/ timeout_s.i >= at

\* The except clauses of run_movies_buddy_agent: "reraise", or the message
\* returned with `conversation_history or []`.
Handler(exc) ==
    CASE exc = "TimeoutError"        -> "Request timed out."
      [] exc = "MissingApiKeyError"  -> "reraise"
      [] OTHER                       -> "The agent failed to run."

(***************************************************************************)
(* SpecRunner: calls of run_movies_buddy_agent.  The caller owns two list  *)
(* objects, an empty one and one with a prior exchange, and gives a call   *)
(* either of them or None.  A call's frame holds its position pc, its      *)
(* arguments, its working list, the state of the MCP server connection,    *)
(* the time the agent takes, the number of Runner.run invocations, and     *)
(* what the call raised or returned.                                       *)
(***************************************************************************)
Runs == {"run1", "run2"}

UserMessage == Msg("user", StrContent("Who directed Dune?"))

PriorHistory == <<Msg("user", StrContent("hi")), Msg("assistant", StrContent("hello"))>>

\* The caller's lists: heap[1] is empty, heap[2] holds the prior exchange.
CallerHeap == << <<>>, PriorHistory >>

RunEnvs == {<<>>, [GEMINI_API_KEY |-> "k1"], [GEMENI_API_KEY |-> "k2", GEMINI_API_KEY |-> ""]}

Timeouts == {NullV} \cup {IntV(n) : n \in 0..MaxTime}

\* What Runner.run may return: [final_output, items, broken]; items are the
\* messages to_input_list() adds to the input, broken: to_input_list() raises.
AgentResult(final_output, items, broken) ==
    [final_output |-> final_output, items |-> items, broken |-> broken]

AgentResults ==
    {AgentResult("Denis Villeneuve.", <<Msg("assistant", StrContent("Denis."))>>, FALSE),
     AgentResult(None, <<Msg("assistant",
                             ListContent(<<Part("text", "a"), NonDictPart, Part("image", "x"),
                                           Part("text", ""), Part("text", "b")>>))>>, FALSE),
     AgentResult("", <<Msg("assistant", OtherContent)>>, FALSE),
     AgentResult(None, <<>>, FALSE),
     AgentResult("lost", <<>>, TRUE)}

RunFrame(pc, history, timeout_s, messages, mcp, at, invocations, raised, conv, output) ==
    [pc |-> pc, history |-> history, timeout_s |-> timeout_s, messages |-> messages,
     mcp |-> mcp, at |-> at, invocations |-> invocations, raised |-> raised,
     conv |-> conv, output |-> output]

InitRunner ==
    /\ heap = CallerHeap
    /\ run = [r \in Runs |-> RunFrame("idle", 0, NullV, 0, "none", 0, 0, "none", 0, "")]
    /\ IdleClient /\ IdleTool /\ IdleResolve /\ IdleFormat /\ IdleExtract

\* The call, down to `async with mcp_server`: the environment is loaded, the
\* agent assembled (outside the try block) and the working list built.
Call(r) ==
    /\ run[r].pc = "idle"
    /\ \E history \in 0..Len(CallerHeap), timeout_s \in Timeouts,
          env \in RunEnvs, script_is_file \in BOOLEAN :
         LET exc == create_movies_buddy_agent(env, script_is_file)
             w   == WorkingList(heap, history, UserMessage)
         IN IF exc # "none"
            THEN /\ run' = [run EXCEPT ![r] = [@ EXCEPT !.pc = "raised", !.history = history,
                                                        !.timeout_s = timeout_s, !.raised = exc]]
                 /\ heap' = heap
            ELSE /\ run' = [run EXCEPT ![r] = [@ EXCEPT !.pc = "connect", !.history = history,
                                                        !.timeout_s = timeout_s,
                                                        !.messages = w.ref, !.mcp = "created"]]
                 /\ heap' = w.heap
    /\ UNCHANGED <<clientVars, toolVars, resolveVars, formatVars, extractVars>>

\* The return of `conversation_history or []` with a message, from a handler.
ReturnHistory(r, message, mcp) ==
    LET h == HistoryOrEmpty(heap, run[r].history) IN
    /\ heap' = h.heap
    /\ run' = [run EXCEPT ![r] = [@ EXCEPT !.pc = "returned", !.conv = h.ref,
                                           !.output = message, !.mcp = mcp]]

\* The outcome of the try block when exc is raised in it, the MCP server
\* connection left in state mcp.
Raise(r, exc, mcp) ==
    IF Handler(exc) = "reraise"
    THEN /\ run' = [run EXCEPT ![r] = [@ EXCEPT !.pc = "raised", !.raised = exc, !.mcp = mcp]]
         /\ heap' = heap
    ELSE ReturnHistory(r, Handler(exc), mcp)

\* mcp_server.__aenter__ succeeds, and Runner.run starts: the agent will take
\* `at` seconds.
Connect(r) ==
    /\ run[r].pc = "connect"
    /\ \E at \in 1..MaxTime :
         run' = [run EXCEPT ![r] = [@ EXCEPT !.pc = "running", !.mcp = "open", !.at = at,
                                            !.invocations = @ + 1]]
    /\ UNCHANGED <<heap, clientVars, toolVars, resolveVars, formatVars, extractVars>>

\* mcp_server.__aenter__ raises: the server process could not be started.
ConnectFails(r) ==
    /\ run[r].pc = "connect"
    /\ Raise(r, "OSError", "created")
    /\ UNCHANGED <<clientVars, toolVars, resolveVars, formatVars, extractVars>>

\* Runner.run returns a result; the connection is closed on leaving the
\* `async with`; the conversation and the final output are extracted.
AgentReturns(r) ==
    /\ run[r].pc = "running"
    /\ AgentCanFinish(run[r].timeout_s, run[r].at)
    /\ \E result \in AgentResults :
         IF result.broken
         THEN Raise(r, "AttributeError", "closed")
         ELSE LET conversation == heap[run[r].messages] \o result.items
              IN /\ heap' = Append(heap, conversation)
                 /\ run' = [run EXCEPT ![r] =
                              [@ EXCEPT !.pc = "returned", !.mcp = "closed",
                                        !.conv = Len(heap) + 1,
                                        !.output = FinalOutput(result.final_output,
                                                               conversation)]]
    /\ UNCHANGED <<clientVars, toolVars, resolveVars, formatVars, extractVars>>

\* Runner.run raises; the connection is closed on leaving the `async with`.
AgentRaises(r) ==
    /\ run[r].pc = "running"
    /\ AgentCanFinish(run[r].timeout_s, run[r].at)
    /\ \E exc \in {"RuntimeError", "TimeoutError"} : Raise(r, exc, "closed")
    /\ UNCHANGED <<clientVars, toolVars, resolveVars, formatVars, extractVars>>

\* The wait elapses: wait_for cancels the agent and raises TimeoutError; the
\* connection is closed on leaving the `async with`.
WaitElapses(r) ==
    /\ run[r].pc = "running"
    /\ WaitCanElapse(run[r].timeout_s, run[r].at)
    /\ Raise(r, "TimeoutError", "closed")
    /\ UNCHANGED <<clientVars, toolVars, resolveVars, formatVars, extractVars>>

NextRunner ==
    \E r \in Runs :
        \/ Call(r)
        \/ Connect(r)
        \/ ConnectFails(r)
        \/ AgentReturns(r)
        \/ AgentRaises(r)
        \/ WaitElapses(r)

SpecRunner == InitRunner /\ [][NextRunner]_vars

\* The contents of the prior history a call was given (empty if None).
PriorOf(r) == IF run[r].history = 0 THEN <<>> ELSE CallerHeap[run[r].history]

\* The call returned what the timeout handler returns: the prior history with
\* its contents as given, the literal message, after one agent invocation.
TimedOutResult(r) ==
    /\ run[r].output = "Request timed out."
    /\ heap[run[r].conv] = PriorOf(r)
    /\ run[r].history # 0 => heap[run[r].history] = CallerHeap[run[r].history]
    /\ run[r].invocations = 1

\* C4 as stated: a call whose agent was invoked with a wait duration (a
\* timeout_s other than None) shorter than the time the agent takes returns the
\* prior history unchanged (empty if none was given) and "Request timed out.",
\* the agent having been invoked once.
C4_AnyShorterWaitTimesOut ==
    \A r \in Runs :
        (run[r].pc = "returned" /\ run[r].invocations > 0
         /\ run[r].timeout_s.t # "null" /\ run[r].timeout_s.i < run[r].at)
        => TimedOutResult(r)

\* C4 amended: the same for a wait duration that is not zero; timeout_s = 0 sets
\* no bound on the wait.
C4_NonZeroShorterWaitTimesOut ==
    \A r \in Runs :
        /\ (run[r].pc = "returned" /\ run[r].invocations > 0
            /\ Truthy(run[r].timeout_s) /\ run[r].timeout_s.i < run[r].at)
           => TimedOutResult(r)
        /\ run[r].invocations <= 1

\* C4 witness: a call given the prior exchange and a 1 second wait, whose agent
\* takes 2 seconds, has returned the timeout message.
C4_Witness ==
    \E r \in Runs :
        /\ run[r].pc = "returned" /\ run[r].history = 2
        /\ run[r].timeout_s = IntV(1) /\ run[r].at = 2
        /\ run[r].output = "Request timed out."

\* C5: a call that ends by raising raises MissingApiKeyError, and every other
\* call that ends returns a pair of a conversation and a message.
C5_OnlyMissingKeyEscapes ==
    \A r \in Runs :
        /\ run[r].pc = "raised" => run[r].raised = "MissingApiKeyError"
        /\ run[r].pc = "returned" => (run[r].raised = "none" /\ run[r].conv # 0)

\* The list objects the caller owns.
CallerLists == 1..Len(CallerHeap)

\* C7: the caller's lists keep the contents they had before the calls, on
\* every path; a working list is a list object of its own, holding a copy of
\* the prior history and then the new user message; and no two calls share a
\* working list.
C7_CallerHistoryUntouched ==
    /\ \A h \in CallerLists : heap[h] = CallerHeap[h]
    /\ \A r \in Runs :
         run[r].messages # 0 =>
           /\ run[r].messages \notin CallerLists
           /\ SubSeq(heap[run[r].messages], 1, Len(PriorOf(r)) + 1)
                = PriorOf(r) \o <<UserMessage>>
    /\ \A r1, r2 \in Runs :
         (r1 # r2 /\ run[r1].messages # 0) => run[r1].messages # run[r2].messages

\* C7 witness: both calls were given the caller's non-empty list; one returned
\* the agent's answer, the other timed out or failed.
C7_Witness ==
    /\ \A r \in Runs : run[r].pc = "returned" /\ run[r].history = 2
    /\ run["run1"].output = "Denis Villeneuve."
    /\ run["run2"].output \in {"Request timed out.", "The agent failed to run."}

\* The MCP server connection a call opened is closed when the call has ended.
McpConnectionReleased ==
    \A r \in Runs : run[r].pc \in {"returned", "raised"} => run[r].mcp # "open"

(***************************************************************************)
(* SpecExtract: the extraction of the final answer, applied to one result  *)
(* of Runner.run: [final_output, conversation].                            *)
(***************************************************************************)
PartKinds ==
    {Part("text", "a"), Part("text", "b"), Part("text", ""), Part("image", "x"),
     NonDictPart}

PartLists == UNION {[1..n -> PartKinds] : n \in 0..MaxParts}

\* The contents of a conversation's last message.
LastContents ==
    {StrContent("Denis."), StrContent(""), OtherContent}
    \cup {ListContent(l) : l \in PartLists}

\* The messages before the last one.
EarlierMessages == {<<>>, <<UserMessage>>, PriorHistory \o <<UserMessage>>}

Conversations ==
    {<<>>} \cup {e \o <<Msg("assistant", c)>> : e \in EarlierMessages, c \in LastContents}

\* getattr(result, "final_output", "")
FinalOutputs == {None, "", "Denis Villeneuve."}

NotExtracted == "<not extracted>"

InitExtract ==
    /\ ext_in \in [final_output : FinalOutputs, conversation : Conversations]
    /\ ext_out = NotExtracted
    /\ IdleClient /\ IdleTool /\ IdleResolve /\ IdleFormat /\ IdleRunner

ExtractFinalOutput ==
    /\ ext_out = NotExtracted
    /\ ext_out' = FinalOutput(ext_in.final_output, ext_in.conversation)
    /\ UNCHANGED <<ext_in, clientVars, toolVars, resolveVars, formatVars, runnerVars>>

NextExtract == ExtractFinalOutput

SpecExtract == InitExtract /\ [][NextExtract]_vars

\* The texts of the parts of type "text", in order, joined by newline; with
\* keep_empty the empty texts are joined as well, without it they are left out.
RECURSIVE JoinedTexts(_, _)
JoinedTexts(parts, keep_empty) ==
    IF parts = <<>> THEN [any |-> FALSE, s |-> ""]
    ELSE LET p      == Head(parts)
             rest   == JoinedTexts(Tail(parts), keep_empty)
             counts == p.dict /\ p.type = "text" /\ (keep_empty \/ p.text # "")
         IN IF ~counts THEN rest
            ELSE IF rest.any THEN [any |-> TRUE, s |-> p.text \o "\n" \o rest.s]
            ELSE [any |-> TRUE, s |-> p.text]

\* The final answer as stated: the final-output field when the runtime provides
\* one (not None, not empty); otherwise from the last message's content.
StatedAnswer(keep_empty) ==
    LET conv == ext_in.conversation IN
    IF ext_in.final_output \notin {None, ""} THEN ext_in.final_output
    ELSE IF conv = <<>> THEN ""
    ELSE LET content == conv[Len(conv)].content IN
         CASE content.t = "str"  -> content.s
           [] content.t = "list" -> JoinedTexts(content.parts, keep_empty).s
           [] OTHER              -> ""

====
